---- MODULE Spec2Model ----
(***************************************************************************)
(* Model of app/backend/app.py: the startup sequence that builds the       *)
(* middle tier and its tool registry, and the three HTTP handlers          *)
(* get_bookings, get_flights and update_booking_options over the booking   *)
(* and flight datasets.                                                    *)
(*                                                                         *)
(* The handlers are coroutines without an await in their bodies, so each   *)
(* runs to completion once scheduled: one action per handler call, and     *)
(* calls of any number of clients interleave as a sequence of actions.     *)
(***************************************************************************)
EXTENDS Integers, Sequences, FiniteSets, TLC

VARIABLES
  bookings,   \* the list get_bookings_data() returns
  flights,    \* the list get_flights_data() returns
  call,       \* the request being served and its response, NoCall when idle
  pc,         \* position of startup_event
  env,        \* os.environ
  rtmt,       \* the RTMiddleTier startup_event builds
  rag,        \* the arguments startup_event passes to attach_rag_tools
  attached    \* the attachment calls made on rtmt, in order

vars == <<bookings, flights, call, pc, env, rtmt, rag, attached>>

-----------------------------------------------------------------------------
(* Values *)

\* Python's None for an Optional[str]; it is no member of the string sets below.
None == "<None>"

\* Passenger names are sequences of characters, so that str.lower() is modelled
\* character by character. NoName is None for the Optional name argument.
NoName == <<None>>

\* Longest name argument a request carries.
MaxNameLen == 2

\* Number of bookings in the dataset.
NumBookings == 2

Alphabet == {"A", "a", "b"}

Names == UNION {[1..n -> Alphabet] : n \in 0..MaxNameLen}

NameArgs == Names \cup {NoName}

Phones == {"+33600000001", "+31600000002"}

FlightArgs == {None, "", "AF1", "ZZ9"}

OptionFields == {"luggage", "meals", "delay"}

OptionArgs == [OptionFields -> {None, "", "x"}]

\* Booking ids a request names: those of the dataset and one that matches none.
BookingIds == 1..(NumBookings + 1)

\* No request is being served.
NoCall == [op |-> "none"]

\* if x: for an Optional[str]: None and the empty string are falsy.
Truthy(x) == x # None /\ x # ""

\* if name: for the Optional name: None and the empty name are falsy.
TruthyName(n) == n # NoName /\ n # <<>>

\* str.lower() on one character.
LowerChar(c) ==
  CASE c = "A" -> "a"
    [] c = "B" -> "b"
    [] OTHER -> c

\* str.lower()
Lower(s) == [i \in 1..Len(s) |-> LowerChar(s[i])]

-----------------------------------------------------------------------------
(* The datasets behind get_bookings_data() and get_flights_data() *)

DataNames == <<<<"A", "b">>, <<"a", "b">>, <<"a">>>>

\* The i-th booking of the dataset; ids are distinct and not in list order.
DataBooking(i, name) ==
  [id |-> NumBookings + 1 - i,
   phone |-> IF i % 2 = 1 THEN "+33600000001" ELSE "+31600000002",
   name |-> name,
   flight |-> IF i % 2 = 1 THEN "AF1" ELSE "KL2",
   options |-> [luggage |-> "1 bag", meals |-> "", delay |-> "none"]]

\* The datasets get_bookings_data() may serve: NumBookings bookings, named
\* from DataNames in turn, starting at its first or its second name.
BookingsData ==
  {[i \in 1..NumBookings |->
      DataBooking(i, DataNames[((i + first - 2) % Len(DataNames)) + 1])] :
     first \in 1..2}

FlightsData ==
  <<[id |-> "AF1", destination |-> "CDG"],
    [id |-> "KL2", destination |-> "AMS"]>>

-----------------------------------------------------------------------------
(* get_bookings *)

FilterByFlight(bs, flight) == SelectSeq(bs, LAMBDA b : b.flight = flight)

\* FilterByName as it would be with the .lower() calls left out.
FilterByNameCaseSensitive(bs, name) == SelectSeq(bs, LAMBDA b : b.name = name)

FilterByName(bs, name) == SelectSeq(bs, LAMBDA b : Lower(b.name) = Lower(name))

get_bookings_result(bs, flight, name) ==
  LET byFlight == IF Truthy(flight) THEN FilterByFlight(bs, flight) ELSE bs
  IN  IF TruthyName(name) THEN FilterByName(byFlight, name) ELSE byFlight

\* get_bookings as it would be if it filtered the dataset's own list.
get_bookings_in_place(flight, name) ==
  /\ pc = "done"
  /\ call = NoCall
  /\ bookings' = get_bookings_result(bookings, flight, name)
  /\ call' = [op |-> "get_bookings", flight |-> flight, name |-> name,
              status |-> 200, result |-> bookings']
  /\ UNCHANGED <<flights, pc, env, rtmt, rag, attached>>

get_bookings(flight, name) ==
  /\ pc = "done"
  /\ call = NoCall
  /\ call' = [op |-> "get_bookings", flight |-> flight, name |-> name,
              status |-> 200,
              result |-> get_bookings_result(bookings, flight, name)]
  /\ UNCHANGED <<bookings, flights, pc, env, rtmt, rag, attached>>

(* get_flights *)

get_flights_result(fs, flight) ==
  IF Truthy(flight) THEN SelectSeq(fs, LAMBDA f : f.id = flight) ELSE fs

get_flights(flight) ==
  /\ pc = "done"
  /\ call = NoCall
  /\ call' = [op |-> "get_flights", flight |-> flight,
              status |-> 200,
              result |-> get_flights_result(flights, flight)]
  /\ UNCHANGED <<bookings, flights, pc, env, rtmt, rag, attached>>

(* update_booking_options *)

\* next((b for b in bookings if b["id"] == booking_id), None): the index of the
\* first booking with that id, 0 for None.
FindBooking(bs, booking_id) ==
  IF \E i \in 1..Len(bs) : bs[i].id = booking_id
    THEN CHOOSE i \in 1..Len(bs) :
           /\ bs[i].id = booking_id
           /\ \A j \in 1..(i - 1) : bs[j].id # booking_id
    ELSE 0

\* ApplyOptions as it would be if it stored the request's options whole.
ApplyOptionsOverwrite(old, opts) == opts

\* The three guarded assignments to booking["options"].
ApplyOptions(old, opts) ==
  [f \in OptionFields |-> IF Truthy(opts[f]) THEN opts[f] ELSE old[f]]

\* UpdateStatus as it would be without the phone check.
UpdateStatusNoPhoneCheck(bs, booking_id, phone) ==
  IF FindBooking(bs, booking_id) = 0 THEN 404 ELSE 200

\* UpdateStatus as it would be if a missing booking failed the phone check.
UpdateStatusPhoneFirst(bs, booking_id, phone) ==
  LET i == FindBooking(bs, booking_id)
  IN  IF i = 0 \/ bs[i].phone # phone THEN 403 ELSE 200

\* The status the handler ends with: the 404 check, then the 403 check, then the
\* update.
UpdateStatus(bs, booking_id, phone) ==
  LET i == FindBooking(bs, booking_id)
  IN  IF i = 0 THEN 404
      ELSE IF bs[i].phone # phone THEN 403
      ELSE 200

update_booking_options(booking_id, phone, opts) ==
  LET i == FindBooking(bookings, booking_id)
      status == UpdateStatus(bookings, booking_id, phone)
      after == IF status = 200
                 THEN [bookings EXCEPT ![i].options = ApplyOptions(@, opts)]
                 ELSE bookings
  IN  /\ pc = "done"
  /\ call = NoCall
      /\ bookings' = after
      /\ call' = [op |-> "update_booking_options", booking_id |-> booking_id,
                  phone |-> phone, options |-> opts, status |-> status,
                  result |-> IF status = 200 THEN <<after[i]>> ELSE <<>>]
      /\ UNCHANGED <<flights, pc, env, rtmt, rag, attached>>

\* The response is sent and the handler's frame is gone.
Respond ==
  /\ pc = "done"
  /\ call # NoCall
  /\ call' = NoCall
  /\ UNCHANGED <<bookings, flights, pc, env, rtmt, rag, attached>>

-----------------------------------------------------------------------------
(* startup_event *)

EnvSpace ==
  [RUNNING_IN_PRODUCTION : {None, "1"},
   AZURE_OPENAI_API_KEY : {None, "key"},
   AZURE_SEARCH_API_KEY : {None, "key"},
   AZURE_TENANT_ID : {None, "tenant"},
   AZURE_OPENAI_ENDPOINT : {None, "https://openai"},
   AZURE_OPENAI_REALTIME_DEPLOYMENT : {None, "gpt-4o-realtime"},
   AZURE_OPENAI_REALTIME_VOICE_CHOICE : {None, "echo"},
   AZURE_SEARCH_USE_VECTOR_QUERY : {None, "true", "false"}]

EnvKeys == DOMAIN CHOOSE e \in EnvSpace : TRUE

\* x or default
OrDefault(x, default) == IF Truthy(x) THEN x ELSE default

\* credential, as lines 44-51 leave it.
Credential(e) ==
  IF ~Truthy(e.AZURE_OPENAI_API_KEY) \/ ~Truthy(e.AZURE_SEARCH_API_KEY)
    THEN IF Truthy(e.AZURE_TENANT_ID)
           THEN "AzureDeveloperCliCredential"
           ELSE "DefaultAzureCredential"
    ELSE None

LlmCredential(e) ==
  IF Truthy(e.AZURE_OPENAI_API_KEY) THEN "AzureKeyCredential" ELSE Credential(e)

SearchCredential(e) ==
  IF Truthy(e.AZURE_SEARCH_API_KEY) THEN "AzureKeyCredential" ELSE Credential(e)

\* (os.environ.get("AZURE_SEARCH_USE_VECTOR_QUERY") == "true") or True
UseVectorQuery(e) == (e.AZURE_SEARCH_USE_VECTOR_QUERY = "true") \/ TRUE

NoRtmt == [created |-> FALSE]

NoRag == [attached |-> FALSE]

\* Lines 37-39: outside production load_dotenv() sets, from the .env file, the
\* variables the environment does not set already.
LoadEnv ==
  /\ pc = "load_env"
  /\ IF ~Truthy(env.RUNNING_IN_PRODUCTION)
       THEN \E file \in EnvSpace :
              env' = [k \in EnvKeys |-> IF env[k] # None THEN env[k] ELSE file[k]]
       ELSE env' = env
  /\ pc' = "create_rtmt"
  /\ UNCHANGED <<rtmt, rag, attached, bookings, flights, call>>

\* Lines 41-73: the credentials and the middle tier. os.environ[...] raises
\* KeyError for a variable that is not set, and startup ends there.
CreateMiddleTier ==
  /\ pc = "create_rtmt"
  /\ IF env.AZURE_OPENAI_ENDPOINT = None \/ env.AZURE_OPENAI_REALTIME_DEPLOYMENT = None
       THEN /\ pc' = "failed"
            /\ UNCHANGED rtmt
       ELSE /\ rtmt' = [created |-> TRUE,
                        credentials |-> LlmCredential(env),
                        endpoint |-> env.AZURE_OPENAI_ENDPOINT,
                        deployment |-> env.AZURE_OPENAI_REALTIME_DEPLOYMENT,
                        voice_choice |->
                          OrDefault(env.AZURE_OPENAI_REALTIME_VOICE_CHOICE, "alloy")]
            /\ pc' = "attach_booking_tools"
  /\ UNCHANGED <<env, rag, attached, bookings, flights, call>>

\* Line 74
AttachBookingTools ==
  /\ pc = "attach_booking_tools"
  /\ attached' = Append(attached, "booking_tools")
  /\ pc' = "attach_flight_tools"
  /\ UNCHANGED <<env, rtmt, rag, bookings, flights, call>>

\* Line 75
AttachFlightTools ==
  /\ pc = "attach_flight_tools"
  /\ attached' = Append(attached, "flight_tools")
  /\ pc' = "attach_rag_tools"
  /\ UNCHANGED <<env, rtmt, rag, bookings, flights, call>>

\* Lines 76-86
AttachRagTools ==
  /\ pc = "attach_rag_tools"
  /\ attached' = Append(attached, "rag_tools")
  /\ rag' = [attached |-> TRUE,
             credentials |-> SearchCredential(env),
             use_vector_query |-> UseVectorQuery(env)]
  /\ pc' = "attach_to_app"
  /\ UNCHANGED <<env, rtmt, bookings, flights, call>>

\* AttachToApp as it would be if line 88 stood before line 76.
AttachToAppBeforeRagTools ==
  /\ pc = "attach_rag_tools"
  /\ attached' = Append(attached, "/realtime")
  /\ pc' = "add_routes"
  /\ UNCHANGED <<env, rtmt, rag, bookings, flights, call>>

\* Line 88
AttachToApp ==
  /\ pc = "attach_to_app"
  /\ attached' = Append(attached, "/realtime")
  /\ pc' = "add_routes"
  /\ UNCHANGED <<env, rtmt, rag, bookings, flights, call>>

\* Lines 89-93
AddRoutes ==
  /\ pc = "add_routes"
  /\ pc' = "done"
  /\ UNCHANGED <<env, rtmt, rag, attached, bookings, flights, call>>

-----------------------------------------------------------------------------
(* Startup: the process from its start to the end of startup_event. *)

InitStartup ==
  /\ bookings \in BookingsData
  /\ flights = FlightsData
  /\ call = NoCall
  /\ pc = "load_env"
  /\ env \in EnvSpace
  /\ rtmt = NoRtmt
  /\ rag = NoRag
  /\ attached = <<>>

NextStartup ==
  \/ LoadEnv
  \/ CreateMiddleTier
  \/ AttachBookingTools
  \/ AttachFlightTools
  \/ AttachRagTools
  \/ AttachToApp
  \/ AddRoutes

SpecStartup == InitStartup /\ [][NextStartup]_vars

(* Serving: the handlers, once startup_event has returned. *)

ServingEnv ==
  [RUNNING_IN_PRODUCTION |-> "1",
   AZURE_OPENAI_API_KEY |-> "key",
   AZURE_SEARCH_API_KEY |-> "key",
   AZURE_TENANT_ID |-> None,
   AZURE_OPENAI_ENDPOINT |-> "https://openai",
   AZURE_OPENAI_REALTIME_DEPLOYMENT |-> "gpt-4o-realtime",
   AZURE_OPENAI_REALTIME_VOICE_CHOICE |-> None,
   AZURE_SEARCH_USE_VECTOR_QUERY |-> None]

Init ==
  /\ bookings \in BookingsData
  /\ flights = FlightsData
  /\ call = NoCall
  /\ pc = "done"
  /\ env = ServingEnv
  /\ rtmt = [created |-> TRUE,
             credentials |-> LlmCredential(ServingEnv),
             endpoint |-> ServingEnv.AZURE_OPENAI_ENDPOINT,
             deployment |-> ServingEnv.AZURE_OPENAI_REALTIME_DEPLOYMENT,
             voice_choice |-> "alloy"]
  /\ rag = [attached |-> TRUE,
            credentials |-> SearchCredential(ServingEnv),
            use_vector_query |-> UseVectorQuery(ServingEnv)]
  /\ attached = <<"booking_tools", "flight_tools", "rag_tools", "/realtime">>

Next ==
  \/ \E flight \in FlightArgs, name \in NameArgs : get_bookings(flight, name)
  \/ \E flight \in FlightArgs : get_flights(flight)
  \/ \E booking_id \in BookingIds, phone \in Phones, opts \in OptionArgs :
       update_booking_options(booking_id, phone, opts)
  \/ Respond

Spec == Init /\ [][Next]_vars

-----------------------------------------------------------------------------
(* Properties *)

\* The other case of a letter; a character without case is its own.
SwapCase(c) ==
  CASE c = "A" -> "a"
    [] c = "a" -> "A"
    [] c = "B" -> "b"
    [] c = "b" -> "B"
    [] OTHER -> c

\* Two names that differ at most in the case of their letters.
CaseVariant(m, n) ==
  /\ Len(m) = Len(n)
  /\ \A i \in 1..Len(m) : m[i] = n[i] \/ SwapCase(m[i]) = n[i]

\* The step is a call of update_booking_options.
IsUpdateStep == call = NoCall /\ call'.op = "update_booking_options"

\* The booking a request names, as an index set (ids are distinct).
Named(bs, booking_id) == {i \in 1..Len(bs) : bs[i].id = booking_id}

ToolGroups == {"booking_tools", "flight_tools", "rag_tools"}

\* C1: a request to update_booking_options that names an existing booking with
\* a phone other than the one on file ends with status 403 and leaves every
\* booking exactly as it was, whatever options it carries.
C1_MismatchedPhoneRejected ==
  [][\A i \in 1..Len(bookings) :
       (IsUpdateStep /\ bookings[i].id = call'.booking_id
                     /\ bookings[i].phone # call'.phone)
         => (call'.status = 403 /\ bookings' = bookings)]_vars

\* C1 witness: a rejected request that carried an option value, for a booking
\* that exists, after earlier updates have changed the dataset.
C1_Witness ==
  /\ call.op = "update_booking_options"
  /\ call.status = 403
  /\ Named(bookings, call.booking_id) # {}
  /\ \E f \in OptionFields : Truthy(call.options[f])
  /\ bookings \notin BookingsData

\* C2: a request with the matching phone leaves every option field it did not
\* supply at its previous value, the booking's id, phone, name and flight
\* unchanged, and every other booking unchanged.
C2_UnsuppliedFieldsKept ==
  [][(IsUpdateStep /\ \E i \in 1..Len(bookings) :
                        /\ bookings[i].id = call'.booking_id
                        /\ bookings[i].phone = call'.phone)
       => /\ Len(bookings') = Len(bookings)
          /\ \A i \in 1..Len(bookings) :
               IF bookings[i].id = call'.booking_id
                 THEN /\ bookings'[i].id = bookings[i].id
                      /\ bookings'[i].phone = bookings[i].phone
                      /\ bookings'[i].name = bookings[i].name
                      /\ bookings'[i].flight = bookings[i].flight
                      /\ \A f \in OptionFields :
                           call'.options[f] = None
                             => bookings'[i].options[f] = bookings[i].options[f]
                 ELSE bookings'[i] = bookings[i]]_vars

\* C2 witness: an accepted request that supplied one field and left another
\* out, on a dataset with another booking in it.
C2_Witness ==
  /\ call.op = "update_booking_options"
  /\ call.status = 200
  /\ Len(bookings) > 1
  /\ \E f, g \in OptionFields :
       /\ call.options[f] = None
       /\ call.options[g] = "x"
       /\ call.result[1].options[g] = "x"
       /\ call.result[1].options[f] # "x"

\* C3: after a request with the matching phone, every option field the request
\* supplied (any string, the empty string included) holds the supplied value.
C3_SuppliedFieldsHold ==
  (call.op = "update_booking_options" /\ call.status = 200)
    => \A i \in Named(bookings, call.booking_id), f \in OptionFields :
         call.options[f] # None => bookings[i].options[f] = call.options[f]

\* C4: get_bookings returns the same list for two name arguments that differ
\* only in letter case, with or without a flight filter.
C4_NameCaseInsensitive ==
  (call.op = "get_bookings" /\ call.name # NoName)
    => \A n \in Names :
         CaseVariant(call.name, n)
           => get_bookings_result(bookings, call.flight, n) = call.result

\* C4 witness: a lookup by a name with a capital letter that returned a booking
\* whose name on file is spelled in another case.
C4_Witness ==
  /\ call.op = "get_bookings"
  /\ call.name # NoName
  /\ \E k \in 1..Len(call.name) : call.name[k] = "A"
  /\ \E k \in 1..Len(call.result) : call.result[k].name # call.name

\* C5: get_flights returns every flight when no flight id is given and exactly
\* the flights with the given id otherwise, so an id that matches no flight
\* (the empty string included) gives the empty list.
C5_FlightsByIdOrAll ==
  call.op = "get_flights"
    => call.result =
         IF call.flight = None
           THEN flights
           ELSE SelectSeq(flights, LAMBDA f : f.id = call.flight)

\* C6: get_bookings returns, in dataset order, exactly the bookings whose
\* flight is the flight argument when one is given and whose name is the name
\* argument up to case when one is given.
C6_BookingsByFilters ==
  call.op = "get_bookings"
    => call.result =
         SelectSeq(bookings,
                   LAMBDA b :
                     /\ call.flight # None => b.flight = call.flight
                     /\ call.name # NoName => CaseVariant(b.name, call.name))

\* C7: a call of get_bookings or get_flights changes neither dataset.
C7_LookupsReadOnly ==
  [][(call = NoCall /\ call'.op \in {"get_bookings", "get_flights"})
       => (bookings' = bookings /\ flights' = flights)]_vars

\* C7 witness: a lookup that returned bookings, served after updates.
C7_Witness ==
  /\ call.op = "get_bookings"
  /\ call.result # <<>>
  /\ bookings \notin BookingsData

\* C8: once the middle tier is attached to /realtime, each of the booking,
\* flight and RAG tool groups has been attached exactly once, all of them
\* before the endpoint; no group is ever attached twice, and none after the
\* endpoint.
C8_ToolsAttachedBeforeEndpoint ==
  /\ \A t \in ToolGroups :
       Cardinality({j \in 1..Len(attached) : attached[j] = t}) <= 1
  /\ \A k \in 1..Len(attached) :
       attached[k] = "/realtime"
         => /\ \A t \in ToolGroups : \E j \in 1..(k - 1) : attached[j] = t
            /\ \A j \in (k + 1)..Len(attached) : attached[j] \notin ToolGroups

\* C8 witness: startup has completed with the endpoint attached.
C8_Witness ==
  /\ pc = "done"
  /\ \E k \in 1..Len(attached) : attached[k] = "/realtime"

\* C9: the vector-query flag passed to attach_rag_tools is true when
\* AZURE_SEARCH_USE_VECTOR_QUERY is "true" and false when it is set to any
\* other value.
C9_VectorQueryFollowsEnv ==
  (rag.attached /\ env.AZURE_SEARCH_USE_VECTOR_QUERY # None)
    => (rag.use_vector_query <=> env.AZURE_SEARCH_USE_VECTOR_QUERY = "true")

\* C10: a request whose booking id matches no booking ends with status 404,
\* whatever its phone, and changes no booking; a request that ends with 404 or
\* 403 changes no booking, and 404 is given only when no booking matches.
C10_UnknownBookingNotFound ==
  [][IsUpdateStep
       => /\ (Named(bookings, call'.booking_id) = {} <=> call'.status = 404)
          /\ call'.status \in {404, 403, 200}
          /\ call'.status # 200 => bookings' = bookings]_vars

\* C10 witness: a 404 for a request that carried the phone of a booking on
\* file and an option value.
C10_Witness ==
  /\ call.op = "update_booking_options"
  /\ call.status = 404
  /\ \E i \in 1..Len(bookings) : bookings[i].phone = call.phone
  /\ \E f \in OptionFields : Truthy(call.options[f])

====
